---------------------------- MODULE Spec2Model ----------------------------
(***************************************************************************)
(* A model of the calculator's expression pipeline (src/main.rs calculate): *)
(* Scanner::scan_tokens, then Parser::parse (recursive descent, modelled    *)
(* with an explicit call stack), then Interpreter::interpret.               *)
(*                                                                         *)
(* A source string is a sequence of characters; a character is a string    *)
(* of the model's alphabet.  Two characters of the alphabet are not ASCII: *)
(* "E9" (U+00E9, alphabetic, 2 bytes of UTF-8) and "20AC" (U+20AC, not     *)
(* alphabetic, 3 bytes).  f64 arithmetic is kept symbolic: a value is the  *)
(* term that computes it.                                                  *)
(***************************************************************************)
EXTENDS Integers, Sequences, FiniteSets, TLC

VARIABLES
    scanner,    \* the Scanner: source, tokens, start, current, line
    parser,     \* the Parser: current (its tokens are the scanner's)
    stack,      \* the parser's call stack: one frame per active parse function
    ret,        \* the value the parse function that returned last returned
    pc,         \* where calculate() is: "scan", "scanned", "parse", "interpret", "done", "panic"
    expr,       \* calculate()'s expr: the tree Parser::parse returned
    result,     \* calculate()'s result
    evallog     \* the interpreter's visits: the node, and the visits made from it in order

vars == <<scanner, parser, stack, ret, pc, expr, result, evallog>>

---------------------------------------------------------------------------
(* Bounds of the model. *)

\* longest source of the scanner's specification
MaxSrcLen == 4

\* longest source of the parser's specification
MaxLen == 4

\* most operators of a chain
MaxOps == 2

\* most arguments of a call of the interpreter's specification
MaxCallArgs == 3

\* the long calls have 255 - ArgSlack to 255 + ArgSlack arguments
ArgSlack == 1

---------------------------------------------------------------------------
(* Characters. *)

AsciiDigits == {"0", "1", "2", "3", "4", "5", "6", "7", "8", "9"}

AsciiLetters ==
    {"a", "b", "c", "d", "e", "f", "g", "h", "i", "j", "k", "l", "m",
     "n", "o", "p", "q", "r", "s", "t", "u", "v", "w", "x", "y", "z"}

\* char::len_utf8: the bytes a character takes in the String
Width(c) == IF c = "E9" THEN 2 ELSE IF c = "20AC" THEN 3 ELSE 1

IsAsciiDigit(c) == c \in AsciiDigits

IsAlphabetic(c) == c \in AsciiLetters \cup {"E9"}

\* char::is_alphanumeric: alphabetic or numeric
IsAlphanumeric(c) == IsAlphabetic(c) \/ c \in AsciiDigits

\* what peek and peek_next return at the end, and what an unwrap of None gives
NUL == "NUL"
PANIC == "PANIC"

---------------------------------------------------------------------------
(* Strings: String::len, chars().nth(n), and the byte slice. *)

\* the byte offset of the k-th character boundary of src, k in 0..Len(src):
\* the sum of the widths (1 to 4 bytes each) of the first k characters
ByteOff(src, k) ==
    LET wide == {i \in 1..k : Width(src[i]) >= 2}
    IN  k + Cardinality(wide)
          + Cardinality({i \in wide : Width(src[i]) >= 3})
          + Cardinality({i \in wide : Width(src[i]) >= 4})

\* String::len: the length in bytes
SourceLen(src) == ByteOff(src, Len(src))

\* source.chars().nth(n).unwrap()
CharAt(src, n) == IF n < Len(src) THEN src[n + 1] ELSE PANIC

RECURSIVE LastBoundary(_, _, _, _)
\* the last k in lo..hi whose boundary is at byte b or before it
\* (the boundary lo is), found by halving
LastBoundary(src, b, lo, hi) ==
    IF lo >= hi THEN lo
    ELSE LET mid == (lo + hi + 1) \div 2
         IN  IF ByteOff(src, mid) <= b
             THEN LastBoundary(src, b, mid, hi)
             ELSE LastBoundary(src, b, lo, mid - 1)

\* the character boundary at byte b, or the last one before it (it is b
\* itself when the b characters before it are one byte each)
BoundaryIndex(src, b) ==
    IF b <= Len(src) /\ ByteOff(src, b) = b THEN b
    ELSE LastBoundary(src, b, 0, Len(src))

\* str::is_char_boundary
IsCharBoundary(src, b) == ByteOff(src, BoundaryIndex(src, b)) = b

RECURSIVE Concat(_)
Concat(cs) == IF cs = <<>> THEN "" ELSE Head(cs) \o Concat(Tail(cs))

\* &source[a..b] panics unless a <= b <= len and both are character boundaries
SliceOk(src, a, b) ==
    /\ a <= b
    /\ b <= SourceLen(src)
    /\ IsCharBoundary(src, a)
    /\ IsCharBoundary(src, b)

\* the characters of source[a..b]
SliceChars(src, a, b) ==
    SubSeq(src, BoundaryIndex(src, a) + 1, BoundaryIndex(src, b))

Slice(src, a, b) == Concat(SliceChars(src, a, b))

RECURSIVE DigitsValue(_)
DigitsValue(cs) ==
    IF cs = <<>> THEN 0
    ELSE 10 * DigitsValue(SubSeq(cs, 1, Len(cs) - 1))
         + (CHOOSE d \in 0..9 : ToString(d) = cs[Len(cs)])

RECURSIVE Normalise(_)
Normalise(v) ==
    IF v.frac > 0 /\ v.mant % 10 = 0
    THEN Normalise([mant |-> v.mant \div 10, frac |-> v.frac - 1])
    ELSE v

\* Whether str::parse::<f64> accepts the text: digits with at most one '.',
\* and one digit at least.  (A sign, an exponent, "inf" and "nan" are accepted
\* too; no slice of the sources here spells one.)
ParseF64Ok(cs) ==
    /\ \A i \in 1..Len(cs) : cs[i] = "." \/ IsAsciiDigit(cs[i])
    /\ Cardinality({i \in 1..Len(cs) : cs[i] = "."}) <= 1
    /\ \E i \in 1..Len(cs) : IsAsciiDigit(cs[i])

\* str::parse::<f64> of digits with an optional fraction: the decimal
\* mant / 10^frac, in lowest terms of ten
ParseF64(cs) ==
    LET dot == {i \in 1..Len(cs) : cs[i] = "."}
        digits == SelectSeq(cs, LAMBDA c : c # ".")
    IN  Normalise([mant |-> DigitsValue(digits),
                   frac |-> IF dot = {} THEN 0
                            ELSE Len(cs) - (CHOOSE i \in dot : TRUE)])

---------------------------------------------------------------------------
(* Tokens.  An Option is a sequence of at most one element. *)

Token(kind, lexeme, literal, line) ==
    [kind |-> kind, lexeme |-> lexeme, literal |-> literal, line |-> line]

\* the token kind of a single-character token, "" for any other character
SingleCharKind(c) ==
    CASE c = "(" -> "LeftParen"
      [] c = ")" -> "RightParen"
      [] c = "+" -> "Plus"
      [] c = "-" -> "Minus"
      [] c = "*" -> "Star"
      [] c = "/" -> "Slash"
      [] c = "%" -> "Modulo"
      [] c = "^" -> "Caret"
      [] c = "," -> "Comma"
      [] c = "." -> "Dot"
      [] OTHER -> ""

IsSkipped(c) == c \in {" ", "\r", "\t"}

---------------------------------------------------------------------------
(* The scanner. *)

ScannerNew(source) ==
    [source |-> source, tokens |-> <<>>, start |-> 0, current |-> 0, line |-> 1]

ScanIsAtEnd(s) == s.current >= SourceLen(s.source)

ScanPeek(s) ==
    IF ScanIsAtEnd(s) THEN NUL ELSE CharAt(s.source, s.current)

ScanPeekNext(s) ==
    IF s.current + 1 >= SourceLen(s.source) THEN NUL
    ELSE CharAt(s.source, s.current + 1)

\* advance: the character read (PANIC when there is none)
ScanAdvanceChar(s) == CharAt(s.source, s.current)

ScanAdvance(s) == [s EXCEPT !.current = @ + 1]

\* a scanner step's outcome: the scanner reached, and whether it panicked
Scanned(s) == [panic |-> FALSE, s |-> s]
ScanPanic(s) == [panic |-> TRUE, s |-> s]

AddToken(s, kind) ==
    IF SliceOk(s.source, s.start, s.current)
    THEN Scanned([s EXCEPT !.tokens = Append(@,
            Token(kind, Slice(s.source, s.start, s.current), <<>>, s.line))])
    ELSE ScanPanic(s)

AddTokenWithLiteral(s, kind, literal) ==
    IF SliceOk(s.source, s.start, s.current)
    THEN Scanned([s EXCEPT !.tokens = Append(@,
            Token(kind, Slice(s.source, s.start, s.current), <<literal>>, s.line))])
    ELSE ScanPanic(s)

RECURSIVE WhileAlphanumeric(_)
\* while self.peek().is_alphanumeric() { self.advance(); }
WhileAlphanumeric(s) ==
    LET c == ScanPeek(s)
    IN  IF c = PANIC THEN ScanPanic(s)
        ELSE IF IsAlphanumeric(c) THEN WhileAlphanumeric(ScanAdvance(s))
        ELSE Scanned(s)

RECURSIVE WhileDigit(_)
\* while self.peek().is_ascii_digit() { self.advance(); }
WhileDigit(s) ==
    LET c == ScanPeek(s)
    IN  IF c = PANIC THEN ScanPanic(s)
        ELSE IF IsAsciiDigit(c) THEN WhileDigit(ScanAdvance(s))
        ELSE Scanned(s)

Identifier(s) ==
    LET w == WhileAlphanumeric(s)
    IN  IF w.panic THEN w ELSE AddToken(w.s, "Identifier")

\* the number's last step: the slice, its parse and unwrap, the token
NumberToken(s) ==
    IF /\ SliceOk(s.source, s.start, s.current)
       /\ ParseF64Ok(SliceChars(s.source, s.start, s.current))
    THEN AddTokenWithLiteral(s, "Number",
            ParseF64(SliceChars(s.source, s.start, s.current)))
    ELSE ScanPanic(s)

Number(s) ==
    LET w == WhileDigit(s)
    IN  IF w.panic THEN w
        ELSE IF ScanPeek(w.s) = PANIC THEN ScanPanic(w.s)
        ELSE IF ScanPeek(w.s) = "."
        THEN IF ScanPeekNext(w.s) = PANIC THEN ScanPanic(w.s)
             ELSE IF IsAsciiDigit(ScanPeekNext(w.s))
             THEN LET f == WhileDigit(ScanAdvance(w.s))
                  IN  IF f.panic THEN f ELSE NumberToken(f.s)
             ELSE NumberToken(w.s)
        ELSE NumberToken(w.s)

\* scan_token, called with start = current
ScanTokenOf(s) ==
    LET c == ScanAdvanceChar(s)
        a == ScanAdvance(s)
    IN  IF c = PANIC THEN ScanPanic(a)
        ELSE IF SingleCharKind(c) # "" THEN AddToken(a, SingleCharKind(c))
        ELSE IF IsSkipped(c) THEN Scanned(a)
        ELSE IF IsAsciiDigit(c) THEN Number(a)
        ELSE IF IsAlphabetic(c) THEN Identifier(a)
        ELSE Scanned(a)

EofToken(s) == Token("Eof", "", <<>>, s.line)

\* a scan_tokens that returns without the push
PushEof_Missing(s) == s

\* self.tokens.push(the Eof token)
PushEof(s) == [s EXCEPT !.tokens = Append(@, EofToken(s))]

\* one turn of scan_tokens' loop: start = current, then scan_token
ScanToken ==
    /\ pc = "scan"
    /\ ~ScanIsAtEnd(scanner)
    /\ LET r == ScanTokenOf([scanner EXCEPT !.start = scanner.current])
       IN  /\ scanner' = r.s
           /\ pc' = IF r.panic THEN "panic" ELSE "scan"
    /\ UNCHANGED <<parser, stack, ret, expr, result, evallog>>

\* the end of scan_tokens: the Eof token is pushed and the tokens returned
ScanEof ==
    /\ pc = "scan"
    /\ ScanIsAtEnd(scanner)
    /\ scanner' = PushEof(scanner)
    /\ pc' = "scanned"
    /\ UNCHANGED <<parser, stack, ret, expr, result, evallog>>

---------------------------------------------------------------------------
(* Results. *)

NoRet == [kind |-> "None"]
Ok(v) == [kind |-> "Ok", val |-> v]
Err(error, token) == [kind |-> "Err", error |-> error, token |-> token]

NoParser == [current |-> 0]
NoExpr == [type |-> "None"]
NoVisit == [node |-> NoExpr, visits |-> <<>>]

---------------------------------------------------------------------------
(* Expression trees (parser::expressions) and error kinds. *)

Binary(left, operator, right) ==
    [type |-> "Binary", left |-> left, operator |-> operator, right |-> right]

Grouping(expression) == [type |-> "Grouping", expression |-> expression]

Literal(value) == [type |-> "Literal", value |-> value]

Unary(operator, right) == [type |-> "Unary", operator |-> operator, right |-> right]

Call(callee, paren, arguments) ==
    [type |-> "Call", callee |-> callee, paren |-> paren, arguments |-> arguments]

Variable(name) == [type |-> "Variable", name |-> name]

SyntaxError(message) == [type |-> "SyntaxError", message |-> message]
AdditionalCodeAfterEnd == [type |-> "AdditionalCodeAfterEnd"]
TooManyArguments == [type |-> "TooManyArguments"]
ExpectedExpression == [type |-> "ExpectedExpression"]
FunctionArityMismatch(name, provided, expected) ==
    [type |-> "FunctionArityMismatch", name |-> name,
     provided |-> provided, expected |-> expected]
UndefinedVariableOrFunction(name) ==
    [type |-> "UndefinedVariableOrFunction", name |-> name]

---------------------------------------------------------------------------
(* The parser's helpers.  Parser::new is given the vector scan_tokens      *)
(* returned, a copy of the scanner's tokens that nothing writes again: the *)
(* parser's tokens are read where they were made, and the parser variable  *)
(* keeps the cursor.  tokens[i] of the code is tokens[i + 1] here.         *)

\* Parser.tokens
tokens == scanner.tokens

\* a parser whose cursor starts on the second token
ParserNewOf_AtOne == [current |-> 1]

\* Parser::new
ParserNewOf == [current |-> 0]

\* whether tokens[current] and tokens[current - 1] index inside the vector
PeekInBounds(p) == p.current < Len(tokens)
PreviousInBounds(p) == p.current >= 1 /\ p.current <= Len(tokens)

Peek(p) == tokens[p.current + 1]

Previous(p) == tokens[p.current]

IsAtEnd(p) == Peek(p).kind = "Eof"

Check(p, kind) == IF IsAtEnd(p) THEN FALSE ELSE Peek(p).kind = kind

\* advance: the parser after it (the token it returns is Previous of that)
Advance(p) == IF ~IsAtEnd(p) THEN [p EXCEPT !.current = @ + 1] ELSE p

\* match_token: whether one of the kinds is the current token's
Matches(p, kinds) == \E kind \in kinds : Check(p, kind)

\* match_token: the parser after it
MatchToken(p, kinds) == IF Matches(p, kinds) THEN Advance(p) ELSE p

\* create_error
CreateError(p, error) == Err(error, <<Peek(p)>>)

\* a multiplication level that takes '%' for an operator too
MultiplicationKinds_WithModulo == {"Star", "Slash", "Modulo"}

\* the operator kinds of the three binary levels, and of the prefix sign
AdditionKinds == {"Plus", "Minus"}
MultiplicationKinds == {"Star", "Slash"}
PowerKinds == {"Caret"}
UnaryKinds == {"Minus", "Plus"}

\* an addition that parses its operands a level too deep
AdditionOperand_SkipsLevel == "power"

\* the function each level parses its operands with
AdditionOperand == "multiplication"
MultiplicationOperand == "power"
PowerOperand == "unary"
\* a unary whose operand is one more unary, as in the usual grammar
UnaryOperand_Unary == "unary"

\* the function unary parses a prefix sign's operand with
UnaryOperand == "expression"

\* a fold that takes the new operand for the left one
FoldBinary_Swapped(left, operator, right) == Binary(right, operator, left)

\* the node a binary level folds its operands into: left is the tree so far
FoldBinary(left, operator, right) == Binary(left, operator, right)

\* a limit that is off by one
ArgumentsFull_OffByOne(arguments) == Len(arguments) > 255

\* the arguments loop's test before it parses one more argument
ArgumentsFull(arguments) == Len(arguments) >= 255

\* a parse that returns the tree wherever the cursor is
ParseEnd_Unchecked(p, e) == Ok(e)

\* parse, after the top-level expression was parsed without error
ParseEnd(p, e) ==
    IF ~IsAtEnd(p) THEN Err(AdditionalCodeAfterEnd, <<Peek(p)>>) ELSE Ok(e)

---------------------------------------------------------------------------
(* The parser's call stack.  A frame is one active call of a parse         *)
(* function: where it is (at), and its locals.                             *)

NoToken == Token("None", "", <<>>, 0)

Frame(fn) ==
    [fn |-> fn, at |-> "enter", expr |-> NoExpr, operator |-> NoToken,
     name |-> NoToken, arguments |-> <<>>]

Top == stack[Len(stack)]

Running(fn) == pc = "parse" /\ stack # <<>> /\ Top.fn = fn

\* the frames under the top one
Callers == SubSeq(stack, 1, Len(stack) - 1)

\* The frames a call of fn pushes, down to the first function that reads a
\* token.  expression only returns what addition returns, so it keeps no
\* frame; addition, multiplication and power begin by calling the function
\* that parses their first operand, and wait for it at "first".
RECURSIVE Descent(_)
Descent(fn) ==
    CASE fn = "expression" -> Descent("addition")
      [] fn = "addition" ->
           <<[Frame(fn) EXCEPT !.at = "first"]>> \o Descent(AdditionOperand)
      [] fn = "multiplication" ->
           <<[Frame(fn) EXCEPT !.at = "first"]>> \o Descent(MultiplicationOperand)
      [] fn = "power" ->
           <<[Frame(fn) EXCEPT !.at = "first"]>> \o Descent(PowerOperand)
      [] OTHER -> <<Frame(fn)>>

\* the top frame calls fn and goes on with f when fn returns
CallFrom(f, fn) ==
    /\ stack' = Callers \o <<f>> \o Descent(fn)
    /\ ret' = NoRet
    /\ pc' = "parse"

\* the top frame returns whatever fn returns: fn takes its place
TailCall(fn) ==
    /\ stack' = Callers \o Descent(fn)
    /\ ret' = NoRet
    /\ pc' = "parse"

\* the top frame returns r to its caller
ReturnOf(r) ==
    /\ stack' = Callers
    /\ ret' = r
    /\ pc' = "parse"

\* an index outside the token vector, or current - 1 below zero: the program panics
ParserPanic ==
    /\ pc' = "panic"
    /\ UNCHANGED <<parser, stack, ret>>

---------------------------------------------------------------------------
(* The parse functions. *)

\* Parser::new(tokens), in calculate
ParserNew ==
    /\ pc = "scanned"
    /\ parser' = ParserNewOf
    /\ stack' = <<[Frame("parse") EXCEPT !.at = "end"]>> \o Descent("expression")
    /\ ret' = NoRet
    /\ pc' = "parse"
    /\ UNCHANGED <<scanner, expr, result, evallog>>

\* parse, and calculate's `?` on what it returns
Parse ==
    /\ Running("parse")
    /\ IF ret.kind = "Err"
       THEN /\ stack' = <<>>
            /\ result' = ret
            /\ pc' = "done"
            /\ UNCHANGED <<parser, ret, expr>>
       ELSE IF ~PeekInBounds(parser)
       THEN ParserPanic /\ UNCHANGED <<expr, result>>
       ELSE LET r == ParseEnd(parser, ret.val)
            IN  /\ stack' = <<>>
                /\ ret' = r
                /\ expr' = IF r.kind = "Ok" THEN r.val ELSE expr
                /\ result' = IF r.kind = "Ok" THEN result ELSE r
                /\ pc' = IF r.kind = "Ok" THEN "interpret" ELSE "done"
                /\ UNCHANGED parser
    /\ UNCHANGED <<scanner, evallog>>

\* a binary level's loop, with e the tree so far:
\* while self.match_token(kinds) { operator = previous(); right = operand()?; ... }
BinaryLoop(kinds, operand, e) ==
    IF ~PeekInBounds(parser) THEN ParserPanic
    ELSE IF Matches(parser, kinds)
    THEN LET p == MatchToken(parser, kinds)
         IN  IF ~PreviousInBounds(p) THEN ParserPanic
             ELSE /\ parser' = p
                  /\ CallFrom([Top EXCEPT !.at = "right", !.expr = e,
                                          !.operator = Previous(p)], operand)
    ELSE /\ ReturnOf(Ok(e))
         /\ UNCHANGED parser

\* addition, multiplication and power: the same function but for the
\* operator kinds and the function that parses an operand
BinaryLevel(fn, kinds, operand) ==
    /\ Running(fn)
    /\ CASE Top.at = "first" ->
              IF ret.kind = "Err" THEN ReturnOf(ret) /\ UNCHANGED parser
              ELSE BinaryLoop(kinds, operand, ret.val)
         [] Top.at = "right" ->
              IF ret.kind = "Err" THEN ReturnOf(ret) /\ UNCHANGED parser
              ELSE BinaryLoop(kinds, operand,
                              FoldBinary(Top.expr, Top.operator, ret.val))
    /\ UNCHANGED <<scanner, expr, result, evallog>>

Addition == BinaryLevel("addition", AdditionKinds, AdditionOperand)

Multiplication ==
    BinaryLevel("multiplication", MultiplicationKinds, MultiplicationOperand)

Power == BinaryLevel("power", PowerKinds, PowerOperand)

UnaryFn ==
    /\ Running("unary")
    /\ CASE Top.at = "enter" ->
              IF ~PeekInBounds(parser) THEN ParserPanic
              ELSE IF Matches(parser, UnaryKinds)
              THEN LET p == MatchToken(parser, UnaryKinds)
                   IN  IF ~PreviousInBounds(p) THEN ParserPanic
                       ELSE /\ parser' = p
                            /\ CallFrom([Top EXCEPT !.at = "right",
                                                    !.operator = Previous(p)],
                                        UnaryOperand)
              ELSE /\ TailCall("primary")
                   /\ UNCHANGED parser
         [] Top.at = "right" ->
              /\ ReturnOf(IF ret.kind = "Err" THEN ret
                          ELSE Ok(Unary(Top.operator, ret.val)))
              /\ UNCHANGED parser
    /\ UNCHANGED <<scanner, expr, result, evallog>>

\* a consume that advances whatever the current token is
Consume_Unchecked(p, kind, message) ==
    [p |-> Advance(p), res |-> Ok(Previous(Advance(p)))]

\* consume: the parser after it, and the token advance returned or the error
Consume(p, kind, message) ==
    IF Check(p, kind)
    THEN [p |-> Advance(p), res |-> Ok(Previous(Advance(p)))]
    ELSE [p |-> p, res |-> CreateError(p, SyntaxError(message))]

\* primary's consume(RightParen, message)?, then its return of the node
\* made with the token consumed
ConsumeRightParen(message, name, arguments, isCall) ==
    IF ~PeekInBounds(parser) THEN ParserPanic
    ELSE LET c == Consume(parser, "RightParen", message)
         IN  /\ parser' = c.p
             /\ ReturnOf(IF c.res.kind = "Err" THEN c.res
                         ELSE IF isCall THEN Ok(Call(name, c.res.val, arguments))
                         ELSE Ok(Grouping(ret.val)))

\* the top of the arguments loop, with p the parser reached: the limit,
\* then the call of expression for one more argument
ArgumentsLoop(p, name, arguments) ==
    IF ArgumentsFull(arguments)
    THEN IF ~PeekInBounds(p) THEN ParserPanic
         ELSE parser' = p /\ ReturnOf(CreateError(p, TooManyArguments))
    ELSE /\ parser' = p
         /\ CallFrom([Top EXCEPT !.at = "argument", !.name = name,
                                 !.arguments = arguments], "expression")

\* primary, after an identifier was matched: p is the parser after it
PrimaryIdentifier(p) ==
    IF ~PreviousInBounds(p) \/ ~PeekInBounds(p) THEN ParserPanic
    ELSE LET name == Previous(p)
             p1 == MatchToken(p, {"LeftParen"})
         IN  IF ~Matches(p, {"LeftParen"})
             THEN parser' = p /\ ReturnOf(Ok(Variable(name)))
             ELSE IF ~PeekInBounds(p1) THEN ParserPanic
             ELSE IF Matches(p1, {"RightParen"})
             THEN LET p2 == MatchToken(p1, {"RightParen"})
                  IN  IF ~PreviousInBounds(p2) THEN ParserPanic
                      ELSE /\ parser' = p2
                           /\ ReturnOf(Ok(Call(name, Previous(p2), <<>>)))
             ELSE ArgumentsLoop(p1, name, <<>>)

Primary ==
    /\ Running("primary")
    /\ CASE Top.at = "enter" ->
              IF ~PeekInBounds(parser) THEN ParserPanic
              ELSE IF Matches(parser, {"Number"})
              THEN LET p == MatchToken(parser, {"Number"})
                   IN  IF ~PreviousInBounds(p) THEN ParserPanic
                       ELSE parser' = p /\ ReturnOf(Ok(Literal(Previous(p))))
              ELSE IF Matches(parser, {"LeftParen"})
              THEN /\ parser' = MatchToken(parser, {"LeftParen"})
                   /\ CallFrom([Top EXCEPT !.at = "grouping"], "expression")
              ELSE IF Matches(parser, {"Identifier"})
              THEN PrimaryIdentifier(MatchToken(parser, {"Identifier"}))
              ELSE /\ ReturnOf(CreateError(parser, ExpectedExpression))
                   /\ UNCHANGED parser
         [] Top.at = "grouping" ->
              IF ret.kind = "Err" THEN ReturnOf(ret) /\ UNCHANGED parser
              ELSE ConsumeRightParen("Expected ')' after expression.",
                                     NoToken, <<>>, FALSE)
         [] Top.at = "argument" ->
              IF ret.kind = "Err" THEN ReturnOf(ret) /\ UNCHANGED parser
              ELSE LET arguments == Append(Top.arguments, ret.val)
                   IN  IF ~PeekInBounds(parser) THEN ParserPanic
                       ELSE IF Matches(parser, {"Comma"})
                       THEN ArgumentsLoop(MatchToken(parser, {"Comma"}),
                                          Top.name, arguments)
                       ELSE ConsumeRightParen("Expected ')' after arguments.",
                                              Top.name, arguments, TRUE)
    /\ UNCHANGED <<scanner, expr, result, evallog>>

---------------------------------------------------------------------------
(* The interpreter's environment (Interpreter::add_things). *)

variables == {"pi", "e", "tau", "phi"}

single_functions ==
    {"sin", "cos", "tan", "asin", "acos", "atan", "sinh", "cosh", "tanh",
     "asinh", "acosh", "atanh", "sqrt", "cbrt", "exp", "exp2", "ln", "log2",
     "log10", "abs", "signum", "floor", "ceil", "round", "trunc"}

double_functions ==
    {"pow", "atan2", "hypot", "max", "min", "remainder", "fmod"}

---------------------------------------------------------------------------
(* The interpreter.  Interpret(e) is the result of visiting e and the      *)
(* visits made: of e, and from it, in order.  A value is a symbolic term.   *)

Visited(res, log) == [res |-> res, log |-> log]

\* the visit of node e and, in order, the visits made from it
Visit(e, visits) == [node |-> e, visits |-> visits]

Panicked == [kind |-> "Panic"]

\* the logs of visits made in order
Logs(vs) == [i \in 1..Len(vs) |-> vs[i].log]

\* the arguments as visit_call_expr collects them: the result of each
CollectArguments(visits) == [i \in 1..Len(visits) |-> visits[i].res]

\* visit_call_expr, given the collected results of the arguments
CallResult(name, arguments) ==
    IF name \in single_functions
    THEN IF Len(arguments) # 1
         THEN Err(FunctionArityMismatch(name, Len(arguments), 1), <<>>)
         ELSE IF arguments[1].kind = "Err" THEN arguments[1]
         ELSE Ok([fn |-> name, args |-> <<arguments[1].val>>])
    ELSE IF name \in double_functions
    THEN IF Len(arguments) # 2
         THEN Err(FunctionArityMismatch(name, Len(arguments), 2), <<>>)
         ELSE IF arguments[1].kind = "Err" THEN arguments[1]
         ELSE IF arguments[2].kind = "Err" THEN arguments[2]
         ELSE Ok([fn |-> name, args |-> <<arguments[1].val, arguments[2].val>>])
    ELSE Err(UndefinedVariableOrFunction(name), <<>>)

\* a lookup that finds the functions' names too
VariableResult_AlsoFunctions(name) ==
    IF name \in variables \cup single_functions \cup double_functions
    THEN Ok([var |-> name])
    ELSE Err(UndefinedVariableOrFunction(name), <<>>)

\* visit_variable_expr
VariableResult(name) ==
    IF name \in variables THEN Ok([var |-> name])
    ELSE Err(UndefinedVariableOrFunction(name), <<>>)

\* visit_literal_expr: literal.unwrap_or(0.0)
LiteralResult(token) ==
    Ok(IF token.literal = <<>> THEN [mant |-> 0, frac |-> 0] ELSE token.literal[1])

\* visit_binary_expr, given the results of left and right
BinaryResult(operator, left, right) ==
    IF left.kind # "Ok" THEN left
    ELSE IF right.kind # "Ok" THEN right
    ELSE IF operator.kind \in {"Plus", "Minus", "Star", "Slash", "Caret"}
    THEN Ok([op |-> operator.kind, left |-> left.val, right |-> right.val])
    ELSE Panicked

\* visit_unary_expr, given the result of right
UnaryResult(operator, right) ==
    IF right.kind # "Ok" THEN right
    ELSE IF operator.kind = "Minus" THEN Ok([op |-> "Neg", right |-> right.val])
    ELSE IF operator.kind = "Plus" THEN right
    ELSE Panicked

RECURSIVE Interpret(_)
Interpret(e) ==
    CASE e.type = "Literal" -> Visited(LiteralResult(e.value), Visit(e, <<>>))
      [] e.type = "Variable" ->
            Visited(VariableResult(e.name.lexeme), Visit(e, <<>>))
      [] e.type = "Grouping" ->
            LET v == Interpret(e.expression)
            IN  Visited(v.res, Visit(e, <<v.log>>))
      [] e.type = "Unary" ->
            LET v == Interpret(e.right)
            IN  Visited(UnaryResult(e.operator, v.res), Visit(e, <<v.log>>))
      [] e.type = "Binary" ->
            LET l == Interpret(e.left)
            IN  IF l.res.kind # "Ok" THEN Visited(l.res, Visit(e, <<l.log>>))
                ELSE LET r == Interpret(e.right)
                     IN  Visited(BinaryResult(e.operator, l.res, r.res),
                                 Visit(e, <<l.log, r.log>>))
      [] e.type = "Call" ->
            LET visits == [i \in 1..Len(e.arguments) |-> Interpret(e.arguments[i])]
            IN  Visited(CallResult(e.callee.lexeme, CollectArguments(visits)),
                        Visit(e, Logs(visits)))

\* interpreter.interpret(&*expr), in calculate
InterpretExpr ==
    /\ pc = "interpret"
    /\ LET v == Interpret(expr)
       IN  /\ result' = v.res
           /\ evallog' = v.log
           /\ pc' = IF v.res.kind = "Panic" THEN "panic" ELSE "done"
    /\ UNCHANGED <<scanner, parser, stack, ret, expr>>

---------------------------------------------------------------------------
(* Sources. *)

RECURSIVE SeqsUpTo(_, _)
\* the sequences over S of length at most n
SeqsUpTo(S, n) ==
    IF n = 0 THEN {<<>>}
    ELSE LET shorter == SeqsUpTo(S, n - 1)
         IN  shorter \cup {Append(s, c) : s \in shorter, c \in S}

ScanAlphabet == {"(", ".", " ", "1", "a", "$", "E9", "20AC"}

ScanSources == SeqsUpTo(ScanAlphabet, MaxSrcLen)

InitWith(sources) ==
    /\ scanner \in {ScannerNew(src) : src \in sources}
    /\ parser = NoParser
    /\ stack = <<>>
    /\ ret = NoRet
    /\ pc = "scan"
    /\ expr = NoExpr
    /\ result = NoRet
    /\ evallog = NoVisit

InitScan == InitWith(ScanSources)

NextScan == ScanToken \/ ScanEof

SpecScan == InitScan /\ [][NextScan]_vars

\* the sources of the parser's specification: every string of at most
\* MaxLen characters, each of them one token
ParseAlphabet == {"1", "a", "(", ")", "+", "*", "^", ",", "%"}

ParseSources == SeqsUpTo(ParseAlphabet, MaxLen)

Init == InitWith(ParseSources)

Next ==
    \/ ScanToken
    \/ ScanEof
    \/ ParserNew
    \/ Parse
    \/ Addition
    \/ Multiplication
    \/ Power
    \/ UnaryFn
    \/ Primary
    \/ InterpretExpr

Spec == Init /\ [][Next]_vars

\* chains: operands separated by binary operators, the i-th operand the
\* digit i, with or without a prefix sign
ChainOperators == {"+", "-", "*", "/", "^"}

ChainOperands(i) == {<<ToString(i)>>, <<"-", ToString(i)>>}

RECURSIVE Chains(_)
\* the chains of k operators
Chains(k) ==
    IF k = 0 THEN ChainOperands(1)
    ELSE {c \o <<op>> \o o :
            c \in Chains(k - 1), op \in ChainOperators, o \in ChainOperands(k + 1)}

\* a chain in parentheses, as the left operand of a product, and a chain
\* as the first of a call's two arguments
WrappedChains ==
    LET inner == UNION {Chains(k) : k \in 0..(MaxOps - 1)}
    IN  {<<"(">> \o c \o <<")", "*", "9">> : c \in inner}
        \cup {<<"a", "(">> \o c \o <<",", "9", ")">> : c \in inner}

ChainSources == UNION {Chains(k) : k \in 0..MaxOps} \cup WrappedChains

InitChain == InitWith(ChainSources)

SpecChain == InitChain /\ [][Next]_vars

\* calls: a callee with or without a parenthesised list of arguments
CallNames == {<<"s", "q", "r", "t">>, <<"p", "o", "w">>, <<"p", "i">>, <<"f", "o", "o">>}

CallArguments == {<<"1">>, <<"p", "i">>, <<"f", "o", "o">>, <<"l", "n">>}

RECURSIVE ArgumentLists(_)
\* the lists of n arguments, as written between the parentheses
ArgumentLists(n) ==
    IF n = 0 THEN {<<>>}
    ELSE IF n = 1 THEN CallArguments
    ELSE {l \o <<",">> \o a : l \in ArgumentLists(n - 1), a \in CallArguments}

CallSources ==
    CallNames \cup
    {name \o <<"(">> \o l \o <<")">> :
        name \in CallNames, l \in UNION {ArgumentLists(n) : n \in 0..MaxCallArgs}}

InitCall == InitWith(CallSources)

SpecCall == InitCall /\ [][Next]_vars

\* n arguments 1, separated by commas
Ones(n) == [i \in 1..(2 * n - 1) |-> IF i % 2 = 1 THEN "1" ELSE ","]

\* calls with about 255 arguments, closed after the last argument or after
\* one more comma
LongCallSources ==
    {<<"a", "(">> \o Ones(n) \o close :
        n \in (255 - ArgSlack)..(255 + ArgSlack), close \in {<<")">>, <<",", ")">>}}

InitArgs == InitWith(LongCallSources)

SpecArgs == InitArgs /\ [][Next]_vars

---------------------------------------------------------------------------
(* The claims about the scanner, under SpecScan. *)

\* the characters scan_token makes a token of, alone or with others
IsTokenChar(c) == SingleCharKind(c) # "" \/ IsAsciiDigit(c) \/ IsAlphabetic(c)

\* C1: for every source string, those with characters the lexer does not
\* recognise and with characters that are not ASCII too, scan_tokens
\* completes and returns without failing, and a character that is not
\* punctuation, whitespace, a digit or alphabetic contributes no token (so
\* there are no more tokens before Eof than characters that make tokens).
C1_ScannerNeverFails ==
    /\ pc # "panic"
    /\ pc = "scanned" =>
         Len(scanner.tokens) - 1
            <= Cardinality({i \in 1..Len(scanner.source) :
                               IsTokenChar(scanner.source[i])})

\* C2: whenever scan_tokens has returned, the token sequence holds exactly
\* one token of kind Eof, and it is the last one.
C2_ExactlyOneEofLast ==
    pc \notin {"scan", "panic"} =>
        /\ Len(scanner.tokens) >= 1
        /\ scanner.tokens[Len(scanner.tokens)].kind = "Eof"
        /\ \A i \in 1..(Len(scanner.tokens) - 1) : scanner.tokens[i].kind # "Eof"

\* scan_tokens has returned tokens of a source that made some
C2_Witness ==
    /\ pc = "scanned"
    /\ Len(scanner.tokens) >= 3
    /\ scanner.tokens[Len(scanner.tokens)].kind = "Eof"

---------------------------------------------------------------------------
(* The claims about the parser's end, under Spec. *)

\* parse is about to return: the top-level expression was parsed without error
AtParseEnd == Running("parse") /\ Top.at = "end" /\ ret.kind = "Ok"

\* C3: parse returns Ok only if, after the top-level expression was
\* parsed, the cursor is on the Eof token, the last one (every token before
\* it was consumed), and the tree it returns is that expression's; if the
\* top-level expression parsed without error and the cursor is on another
\* token, parse returns AdditionalCodeAfterEnd with that token.
C3_OkOnlyAtEof ==
    [][ /\ (pc' = "interpret" /\ pc # "interpret") =>
              /\ AtParseEnd
              /\ Peek(parser).kind = "Eof"
              /\ parser.current = Len(tokens) - 1
              /\ expr' = ret.val
        /\ (AtParseEnd /\ Peek(parser).kind # "Eof") =>
              /\ pc' = "done"
              /\ result' = Err(AdditionalCodeAfterEnd, <<Peek(parser)>>)
      ]_vars

\* parse has returned AdditionalCodeAfterEnd, with a token other than Eof
\* that stands after the tokens consumed
C3_Witness ==
    /\ pc = "done"
    /\ result.kind = "Err"
    /\ result.error.type = "AdditionalCodeAfterEnd"
    /\ parser.current >= 1
    /\ result.token = <<tokens[parser.current + 1]>>
    /\ result.token[1].kind # "Eof"

---------------------------------------------------------------------------
(* The claims about the tree's shape, under SpecChain.  The tree a chain   *)
(* is claimed to have is built here from the tokens alone: the operands    *)
(* and operators are split at the last operator of the lowest level.       *)

\* the tokens before Eof
SourceTokens == SubSeq(scanner.tokens, 1, Len(scanner.tokens) - 1)

BinaryKinds == {"Plus", "Minus", "Star", "Slash", "Caret"}
SignKinds == {"Plus", "Minus"}

\* the operator kinds by level, lowest first
LevelKinds(level) ==
    CASE level = 1 -> {"Plus", "Minus"}
      [] level = 2 -> {"Star", "Slash"}
      [] level = 3 -> {"Caret"}

\* an item of a chain: an operator's token or an operand's tree
OperatorItem(token) == [isop |-> TRUE, token |-> token, tree |-> NoExpr]
OperandItem(tree) == [isop |-> FALSE, token |-> NoToken, tree |-> tree]

\* operands (numbers) separated by binary operators, with no prefix sign
IsPlainChain(toks) ==
    /\ Len(toks) % 2 = 1
    /\ \A i \in 1..Len(toks) :
          IF i % 2 = 1 THEN toks[i].kind = "Number"
          ELSE toks[i].kind \in BinaryKinds

RECURSIVE IsChain(_)
\* operands separated by binary operators, an operand a number or a
\* prefix sign before a chain
IsChain(toks) ==
    /\ toks # <<>>
    /\ IF Head(toks).kind \in SignKinds THEN IsChain(Tail(toks))
       ELSE /\ Head(toks).kind = "Number"
            /\ \/ Len(toks) = 1
               \/ /\ Len(toks) >= 3
                  /\ toks[2].kind \in BinaryKinds
                  /\ IsChain(SubSeq(toks, 3, Len(toks)))

RECURSIVE FoldLevel(_, _)
\* the left fold of the items at a level: split at the level's last
\* operator; the left part is folded at the level, the right part above it
FoldLevel(level, items) ==
    IF level > 3 THEN items[1].tree
    ELSE LET ops == {j \in 1..Len(items) :
                        items[j].isop /\ items[j].token.kind \in LevelKinds(level)}
         IN  IF ops = {} THEN FoldLevel(level + 1, items)
             ELSE LET j == CHOOSE k \in ops : \A l \in ops : l <= k
                  IN  Binary(FoldLevel(level, SubSeq(items, 1, j - 1)),
                             items[j].token,
                             FoldLevel(level + 1, SubSeq(items, j + 1, Len(items))))

RECURSIVE ChainItems(_)
\* the items of a chain: a prefix sign's operand is the whole rest
ChainItems(toks) ==
    IF toks = <<>> THEN <<>>
    ELSE IF Head(toks).kind \in SignKinds
    THEN <<OperandItem(Unary(Head(toks), FoldLevel(1, ChainItems(Tail(toks)))))>>
    ELSE <<OperandItem(Literal(Head(toks)))>>
         \o (IF Len(toks) = 1 THEN <<>>
             ELSE <<OperatorItem(toks[2])>> \o ChainItems(SubSeq(toks, 3, Len(toks))))

\* the tree claimed for a chain
ChainTree(toks) == FoldLevel(1, ChainItems(toks))

Parsed == pc \in {"interpret", "done"}

\* C4: a sequence of primaries separated by binary operators, with no
\* prefix sign, is parsed, and its tree is the left fold within each level
\* with '+','-' below '*','/' below '^': a op1 b op2 c of one level is
\* Binary(Binary(a, op1, b), op2, c), for '^' too, and 1+2*3 is
\* Binary(1, +, Binary(2, *, 3)).
C4_LeftFoldByPrecedence ==
    (Parsed /\ IsPlainChain(SourceTokens)) => expr = ChainTree(SourceTokens)

\* 1^2^3 was parsed as (1^2)^3
C4_Witness ==
    /\ Parsed
    /\ scanner.source = <<"1", "^", "2", "^", "3">>
    /\ expr.type = "Binary"
    /\ expr.operator.kind = "Caret"
    /\ expr.left.type = "Binary"
    /\ expr.left.operator.kind = "Caret"
    /\ expr.right.type = "Literal"

RECURSIVE NoUnaryLeft(_)
\* no Binary node of the tree has a Unary node as its left operand
NoUnaryLeft(e) ==
    CASE e.type = "Binary" ->
            e.left.type # "Unary" /\ NoUnaryLeft(e.left) /\ NoUnaryLeft(e.right)
      [] e.type = "Unary" -> NoUnaryLeft(e.right)
      [] e.type = "Grouping" -> NoUnaryLeft(e.expression)
      [] e.type = "Call" ->
            \A i \in 1..Len(e.arguments) : NoUnaryLeft(e.arguments[i])
      [] OTHER -> TRUE

\* the tokens of the chain c of the sources ( c ) * 9 and a ( c , 9 )
InGrouping(toks) == SubSeq(toks, 2, Len(toks) - 3)
InArguments(toks) == SubSeq(toks, 3, Len(toks) - 3)

\* C5: the operand of a prefix '+' or '-' is the whole following
\* expression, up to the enclosing ')' or ',' or Eof: a chain that starts
\* with a sign is Unary(sign, the rest's tree), a sign after an operator
\* takes the rest of its chain likewise, a chain in parentheses or in an
\* argument ends at the ')' or the ',', and no tree is
\* Binary(Unary(sign, a), op, b).
C5_UnaryTakesWholeExpression ==
    Parsed =>
        LET toks == SourceTokens
        IN  /\ (IsChain(toks) /\ Head(toks).kind \in SignKinds) =>
                  expr = Unary(Head(toks), ChainTree(Tail(toks)))
            /\ IsChain(toks) => expr = ChainTree(toks)
            /\ (Len(toks) > 4 /\ toks[1].kind = "LeftParen") =>
                  /\ expr.type = "Binary"
                  /\ expr.left = Grouping(ChainTree(InGrouping(toks)))
                  /\ expr.right = Literal(toks[Len(toks)])
            /\ (Len(toks) > 4 /\ toks[1].kind = "Identifier") =>
                  /\ expr.type = "Call"
                  /\ expr.arguments = <<ChainTree(InArguments(toks)),
                                        Literal(toks[Len(toks) - 1])>>
            /\ expr.type # "None" => NoUnaryLeft(expr)

\* -1^2 was parsed as -(1^2)
C5_Witness ==
    /\ Parsed
    /\ scanner.source = <<"-", "1", "^", "2">>
    /\ expr.type = "Unary"
    /\ expr.operator.kind = "Minus"
    /\ expr.right.type = "Binary"
    /\ expr.right.operator.kind = "Caret"

---------------------------------------------------------------------------
(* The claims about calls, under SpecCall.  The names are those of the     *)
(* specification's environment.                                            *)

UnaryNames ==
    {"sin", "cos", "tan", "asin", "acos", "atan", "sinh", "cosh", "tanh",
     "asinh", "acosh", "atanh", "sqrt", "cbrt", "exp", "exp2", "ln", "log2",
     "log10", "abs", "signum", "floor", "ceil", "round", "trunc"}

BinaryNames == {"pow", "atan2", "hypot", "max", "min", "remainder", "fmod"}

VariableNames == {"pi", "e", "tau", "phi"}

\* the result of evaluating the i-th argument of the call e
ArgumentResult(e, i) == Interpret(e.arguments[i]).res

\* the arguments of the call e whose evaluation errors
FailingArguments(e) ==
    {i \in 1..Len(e.arguments) : ArgumentResult(e, i).kind = "Err"}

FirstFailingArgument(e) ==
    CHOOSE i \in FailingArguments(e) : \A j \in FailingArguments(e) : i <= j

Interpreted == pc = "done" /\ expr.type # "None"

\* C6: in evaluating a Call, the arguments are evaluated left to right and
\* evaluation stops at the first argument whose evaluation errors: no
\* later argument is visited, and that argument's error is the result of
\* the call, whatever the callee and the number of arguments.
C6_FirstArgumentErrorEndsCall ==
    (Interpreted /\ expr.type = "Call" /\ FailingArguments(expr) # {}) =>
        /\ result = ArgumentResult(expr, FirstFailingArgument(expr))
        /\ Len(evallog.visits) = FirstFailingArgument(expr)

\* C7: a Call whose arguments all evaluate without error succeeds iff its
\* callee is a unary function and it has 1 argument, or a binary function
\* and it has 2; a function called with another number of arguments gives
\* FunctionArityMismatch(name, provided, 1 or 2), any other callee (a
\* variable's name too) UndefinedVariableOrFunction(name).  A Variable
\* node is looked up among the variables only.
C7_CallArityAndLookup ==
    Interpreted =>
        /\ (expr.type = "Call" /\ FailingArguments(expr) = {}) =>
              LET name == expr.callee.lexeme
                  provided == Len(expr.arguments)
              IN  IF name \in UnaryNames
                  THEN IF provided = 1 THEN result.kind = "Ok"
                       ELSE result = Err(FunctionArityMismatch(name, provided, 1), <<>>)
                  ELSE IF name \in BinaryNames
                  THEN IF provided = 2 THEN result.kind = "Ok"
                       ELSE result = Err(FunctionArityMismatch(name, provided, 2), <<>>)
                  ELSE result = Err(UndefinedVariableOrFunction(name), <<>>)
        /\ expr.type = "Variable" =>
              IF expr.name.lexeme \in VariableNames THEN result.kind = "Ok"
              ELSE result = Err(UndefinedVariableOrFunction(expr.name.lexeme), <<>>)

\* sqrt was called with two arguments that evaluate, and the call gave
\* FunctionArityMismatch("sqrt", 2, 1)
C7_Witness ==
    /\ Interpreted
    /\ expr.type = "Call"
    /\ expr.callee.lexeme = "sqrt"
    /\ Len(expr.arguments) = 2
    /\ FailingArguments(expr) = {}
    /\ result = Err(FunctionArityMismatch("sqrt", 2, 1), <<>>)

---------------------------------------------------------------------------
(* The claims about the number of arguments, under SpecArgs. *)

\* the arguments written in the source: the numbers among its tokens
WrittenArguments ==
    Cardinality({i \in 1..Len(scanner.tokens) : scanner.tokens[i].kind = "Number"})

\* whether a ',' stands after the last argument
CommaAfterLast == scanner.tokens[Len(scanner.tokens) - 2].kind = "Comma"

\* C8: a call with exactly 255 arguments followed by ')' is accepted, as a
\* Call node with 255 arguments, and a call in which a ',' follows the
\* 255th argument fails with TooManyArguments.
C8_Limit255 ==
    Parsed =>
        /\ (WrittenArguments = 255 /\ ~CommaAfterLast) =>
              /\ expr.type = "Call"
              /\ Len(expr.arguments) = 255
        /\ (WrittenArguments > 255 \/ (WrittenArguments = 255 /\ CommaAfterLast)) =>
              /\ expr = NoExpr
              /\ result.kind = "Err"
              /\ result.error = TooManyArguments

\* the source with 255 arguments and the ')' was parsed
C8_Witness ==
    /\ Parsed
    /\ WrittenArguments = 255
    /\ ~CommaAfterLast
    /\ expr.type = "Call"
    /\ Len(expr.arguments) = 255

RECURSIVE CallsAtMost(_, _)
\* every Call node of the tree e has at most n arguments
CallsAtMost(e, n) ==
    CASE e.type = "Binary" -> CallsAtMost(e.left, n) /\ CallsAtMost(e.right, n)
      [] e.type = "Unary" -> CallsAtMost(e.right, n)
      [] e.type = "Grouping" -> CallsAtMost(e.expression, n)
      [] e.type = "Call" ->
            /\ Len(e.arguments) <= n
            /\ \A i \in 1..Len(e.arguments) : CallsAtMost(e.arguments[i], n)
      [] OTHER -> TRUE

\* C9, as claimed: in every tree parse returns, every Call node has at most
\* 254 arguments.
C9_AtMost254Arguments == Parsed => CallsAtMost(expr, 254)

\* C9, amended: in every tree parse returns, every Call node has at most
\* 255 arguments.
C9_AtMost255Arguments == Parsed => CallsAtMost(expr, 255)

\* parse returned a tree with a Call node of more than 254 arguments
C9_Witness ==
    /\ Parsed
    /\ expr.type # "None"
    /\ ~CallsAtMost(expr, 254)
    /\ CallsAtMost(expr, 255)

---------------------------------------------------------------------------
(* The claim about '%', under Spec. *)

ModuloTokens == {i \in 1..Len(SourceTokens) : SourceTokens[i].kind = "Modulo"}

FirstModulo == CHOOSE i \in ModuloTokens : \A j \in ModuloTokens : i <= j

\* the kind of the token before the first '%', "None" when there is none
KindBeforeModulo ==
    IF FirstModulo = 1 THEN "None" ELSE SourceTokens[FirstModulo - 1].kind

\* the parentheses open at the first '%'
OpenAtModulo ==
      Cardinality({i \in 1..(FirstModulo - 1) : SourceTokens[i].kind = "LeftParen"})
    - Cardinality({i \in 1..(FirstModulo - 1) : SourceTokens[i].kind = "RightParen"})

\* C10, as claimed: every input whose tokens contain a Modulo is rejected
\* by parse, with an error of kind SyntaxError.
C10_ModuloIsSyntaxError ==
    (Parsed /\ ModuloTokens # {}) =>
        /\ expr = NoExpr
        /\ result.kind = "Err"
        /\ result.error.type = "SyntaxError"

\* C10, amended: every input whose tokens contain a Modulo is rejected by
\* parse.  When the parse fails at the '%', the error is
\* ExpectedExpression for a '%' at the start of an operand
\* (TooManyArguments instead when the '%' follows the comma after a call's
\* 255th argument), AdditionalCodeAfterEnd for a '%' after a complete
\* operand outside all parentheses, as in 1 % 2, and SyntaxError for a '%'
\* after a complete operand inside an open '('.
C10_ModuloIsRejected ==
    (Parsed /\ ModuloTokens # {}) =>
        /\ pc = "done"
        /\ expr = NoExpr
        /\ result.kind = "Err"
        /\ parser.current < FirstModulo
        /\ parser.current = FirstModulo - 1 =>
              /\ result.token = <<SourceTokens[FirstModulo]>>
              /\ CASE KindBeforeModulo \in {"None", "LeftParen"} \cup BinaryKinds ->
                        result.error = ExpectedExpression
                   [] KindBeforeModulo = "Comma" ->
                        result.error \in {ExpectedExpression, TooManyArguments}
                   [] KindBeforeModulo \in {"Number", "Identifier", "RightParen"} ->
                        IF OpenAtModulo = 0
                        THEN result.error = AdditionalCodeAfterEnd
                        ELSE result.error.type = "SyntaxError"
                   [] OTHER -> FALSE

\* 1 % ... was rejected with AdditionalCodeAfterEnd at the '%'
C10_Witness ==
    /\ Parsed
    /\ ModuloTokens # {}
    /\ FirstModulo = 2
    /\ SourceTokens[1].kind = "Number"
    /\ result.kind = "Err"
    /\ result.error = AdditionalCodeAfterEnd
    /\ result.token[1].kind = "Modulo"

---------------------------------------------------------------------------
(* The claim about a subtraction chain under a prefix sign, under          *)
(* SpecChain.                                                              *)

\* a - b - c, with a, b and c numbers
IsSubtractionChain(toks) ==
    /\ Len(toks) = 5
    /\ \A i \in {1, 3, 5} : toks[i].kind = "Number"
    /\ \A i \in {2, 4} : toks[i].kind = "Minus"

\* a prefix sign before a - b - c
IsSignedSubtractionChain(toks) ==
    /\ Len(toks) = 6
    /\ toks[1].kind \in SignKinds
    /\ IsSubtractionChain(Tail(toks))

\* (a - b) - c
LeftNested(toks) ==
    Binary(Binary(Literal(toks[1]), toks[2], Literal(toks[3])),
           toks[4], Literal(toks[5]))

\* a - (b - c)
RightNested(toks) ==
    Binary(Literal(toks[1]), toks[2],
           Binary(Literal(toks[3]), toks[4], Literal(toks[5])))

\* C11, as claimed: a chain a - b - c parsed as the operand of a prefix
\* sign is nested to the right, a - (b - c), and the same chain parsed in
\* the ordinary addition chain to the left, (a - b) - c.
C11_SignedChainRightNested ==
    Parsed =>
        /\ IsSignedSubtractionChain(SourceTokens) =>
              expr = Unary(SourceTokens[1], RightNested(Tail(SourceTokens)))
        /\ IsSubtractionChain(SourceTokens) => expr = LeftNested(SourceTokens)

\* C11, amended: a chain a - b - c parsed as the operand of a prefix sign
\* is nested to the left, (a - b) - c, as the same chain is in the ordinary
\* addition chain; the sign's operand is the whole chain.
C11_SignedChainLeftNested ==
    Parsed =>
        /\ IsSignedSubtractionChain(SourceTokens) =>
              expr = Unary(SourceTokens[1], LeftNested(Tail(SourceTokens)))
        /\ IsSubtractionChain(SourceTokens) => expr = LeftNested(SourceTokens)

\* -1-2-3 was parsed as -((1-2)-3)
C11_Witness ==
    /\ Parsed
    /\ IsSignedSubtractionChain(SourceTokens)
    /\ expr.type = "Unary"
    /\ expr.right.type = "Binary"
    /\ expr.right.left.type = "Binary"
    /\ expr.right.left.operator.kind = "Minus"
    /\ expr.right.right.type = "Literal"

---------------------------------------------------------------------------
(* The claim about parentheses, under Spec. *)

\* the number of tokens of the kind among the first n tokens
CountKind(kind, n) ==
    Cardinality({i \in 1..n : scanner.tokens[i].kind = kind})

LeftParens == CountKind("LeftParen", Len(scanner.tokens))
RightParens == CountKind("RightParen", Len(scanner.tokens))

\* parse returned Ok
Accepted == Parsed /\ expr # NoExpr

\* parse returned an error
Rejected == pc = "done" /\ expr = NoExpr /\ result.kind = "Err"

\* the '(' not yet closed among the tokens before the cursor
OpenAtCursor ==
    CountKind("LeftParen", parser.current) - CountKind("RightParen", parser.current)

\* C12, as claimed: when parse returns Ok the tokens hold as many '(' as
\* ')'; tokens with more '(' than ')' are rejected with SyntaxError, and
\* tokens with more ')' than '(' with ExpectedExpression or
\* AdditionalCodeAfterEnd.
C12_UnmatchedParenErrorKinds ==
    Parsed =>
        /\ Accepted => LeftParens = RightParens
        /\ LeftParens > RightParens =>
              Rejected /\ result.error.type = "SyntaxError"
        /\ RightParens > LeftParens =>
              /\ Rejected
              /\ result.error \in {ExpectedExpression, AdditionalCodeAfterEnd}

\* C12, amended: when parse returns Ok the tokens hold as many '(' as ')';
\* tokens with unequal counts are rejected, with SyntaxError,
\* ExpectedExpression, AdditionalCodeAfterEnd or TooManyArguments according
\* to where the parse fails, not to which parenthesis is unmatched.  A
\* SyntaxError comes from consume: the token it carries follows a complete
\* operand inside a '(' that is still open.
C12_ParensBalanced ==
    Parsed =>
        /\ Accepted => LeftParens = RightParens
        /\ LeftParens # RightParens =>
              /\ Rejected
              /\ \/ result.error.type = "SyntaxError"
                 \/ result.error \in {ExpectedExpression, AdditionalCodeAfterEnd,
                                      TooManyArguments}
        /\ (Rejected /\ result.error.type = "SyntaxError") =>
              /\ result.token = <<Peek(parser)>>
              /\ Peek(parser).kind # "RightParen"
              /\ OpenAtCursor > 0
              /\ Previous(parser).kind \in {"Number", "Identifier", "RightParen"}

\* an unclosed '(' was rejected by consume at Eof
C12_Witness ==
    /\ Rejected
    /\ LeftParens > RightParens
    /\ result.error = SyntaxError("Expected ')' after expression.")
    /\ result.token[1].kind = "Eof"

---------------------------------------------------------------------------
(* The claim about the parser's cursor, under Spec.  In the model a peek   *)
(* or a previous that indexes outside the token vector, or with            *)
(* current = 0 for previous, is the step to pc = "panic".                  *)

\* the tokens end with their only Eof token
EndsWithOnlyEof ==
    /\ Len(scanner.tokens) >= 1
    /\ \A i \in 1..Len(scanner.tokens) :
          (scanner.tokens[i].kind = "Eof") = (i = Len(scanner.tokens))

\* the index of the Eof token, counted from 0 as the code counts
EofIndex == Len(scanner.tokens) - 1

\* C13: in every step of a parse of tokens that end with their only Eof,
\* from Parser::new to the return of parse, the cursor does not decrease
\* and does not exceed the index of the Eof token, so that peek indexes
\* inside the vector, and no peek or previous indexes out of bounds (the
\* program does not panic), on the tokens [Eof] too.
C13_CursorInBounds ==
    [][ (pc \in {"scanned", "parse"} /\ EndsWithOnlyEof) =>
              /\ pc' # "panic"
              /\ parser'.current >= parser.current
              /\ parser'.current <= EofIndex
              /\ PeekInBounds(parser')
              /\ parser'.current > parser.current => PreviousInBounds(parser')
      ]_vars

\* a parse has failed at the Eof token after it consumed every token
\* before it
C13_Witness ==
    /\ Rejected
    /\ EndsWithOnlyEof
    /\ Len(scanner.tokens) >= 3
    /\ parser.current = EofIndex
    /\ result.token = <<scanner.tokens[Len(scanner.tokens)]>>

=============================================================================
